---- MODULE Spec2Model ----
(***************************************************************************)
(* The opponent state tracker of SharkAgent7 (GlobalStateTracker in        *)
(* agents/shark_agent7.py), as a state machine driven by the observations  *)
(* passed to update().                                                     *)
(*   Spec      : every call carries no action or a new action object.      *)
(*   DedupSpec : calls may carry an action object observed before.         *)
(*   GameSpec  : the tracker beside a full-information reference game.     *)
(* The scorer and select_action of SharkAgent7:                            *)
(*   SelectSpec: select_action of one agent over lists of actions.         *)
(*   ReproSpec : two agents with the same seed on the same inputs.         *)
(*   ScoreSpec : the scoring functions over the inputs of one good.        *)
(*   AgentsSpec: two agents and their trackers in one process.             *)
(* The optimizer of training_files/shark/train_shark7.py:                  *)
(*   MatchSpec : play_match, statement by statement.                       *)
(*   EvalSpec  : evaluate_population and its pool of worker processes.     *)
(*   EvolveSpec: run_evolution, generation by generation.                  *)
(*   TwinSpec  : its tracker beside the tracker of the agent.              *)
(***************************************************************************)
EXTENDS Integers, FiniteSets, Sequences, TLC

\* ------------------------------------------------------------------ bounds
\* Number of update() calls of one run.
MaxCalls == 3

\* Largest count a Sell action carries.
MaxSell == 6

\* Largest count a camel Take carries.
MaxCamels == 2

\* Largest number of cards of one kind on one side of a Trade.
MaxTrade == 2

\* Number of opponent turns of one reference game.
MaxTurns == 2

\* ------------------------------------------------------------- constants
\* bazaar_ai.goods.GoodType, the keys of TOTAL_CARDS.
GoodType == {"DIAMOND", "GOLD", "SILVER", "FABRIC", "SPICE", "LEATHER", "CAMEL"}

CAMEL == "CAMEL"

TOTAL_CARDS ==
  [g \in GoodType |->
     CASE g \in {"DIAMOND", "GOLD", "SILVER"} -> 6
       [] g \in {"FABRIC", "SPICE"} -> 8
       [] g = "LEATHER" -> 10
       [] OTHER -> 11]

\* observation.max_player_goods_count of the game, the 7 of opp_locked.
HandLimit == 7

\* Cards dealt to each hand and to the market, and the camels the market
\* starts with.
DealSize == 5

MarketCamels == 3

Min(a, b) == IF a < b THEN a ELSE b

Max(a, b) == IF a > b THEN a ELSE b

\* A Counter() with no entries: every key reads as 0.
Counter == [g \in GoodType |-> 0]

\* ---------------------------------------------------------- observations
\* obs.action is None, or an action object.  An action object has an
\* identity (what id() returns while the object is alive) and a content:
\* trader_action_type.value, and the attributes update() reads for it.
\* has_count says whether the object has a _count attribute.  Identities are
\* positive; NoneId stands for None (no action, no last_action_id yet).
NoneId == 0

NoneAct ==
  [kind |-> "None", good |-> CAMEL, count |-> 0, has_count |-> FALSE,
   requested_goods |-> Counter, offered_goods |-> Counter]

SellAction(g, n) ==
  [kind |-> "Sell", good |-> g, count |-> n, has_count |-> TRUE,
   requested_goods |-> Counter, offered_goods |-> Counter]

TakeAction(g) ==
  [kind |-> "Take", good |-> g, count |-> 0, has_count |-> FALSE,
   requested_goods |-> Counter, offered_goods |-> Counter]

TakeCamels(n) ==
  [kind |-> "Take", good |-> CAMEL, count |-> n, has_count |-> TRUE,
   requested_goods |-> Counter, offered_goods |-> Counter]

TradeAction(req, off) ==
  [kind |-> "Trade", good |-> CAMEL, count |-> 0, has_count |-> FALSE,
   requested_goods |-> req, offered_goods |-> off]

\* An action whose trader_action_type.value is none of Sell, Take, Trade.
OtherAction ==
  [kind |-> "Other", good |-> CAMEL, count |-> 0, has_count |-> FALSE,
   requested_goods |-> Counter, offered_goods |-> Counter]

Observation(i, a) == [id |-> i, action |-> a]

NoObservation == Observation(NoneId, NoneAct)

\* --------------------------------------------------------------- tracker
\* GlobalStateTracker.__init__
TrackerInit ==
  [opp_confirmed |-> Counter,
   opp_hand_size |-> 5,
   opp_camels |-> 0,
   opp_score_est |-> 0,
   sold_cards |-> Counter,
   last_action_id |-> NoneId]

\* update() without the identity check.
IsSkipped_NoneOnly(t, obs) == obs.id = NoneId

\* The two early returns of update().
IsSkipped(t, obs) ==
  \/ obs.id = NoneId
  \/ obs.id = t.last_action_id

avg_val(good) == IF good \in {"DIAMOND", "GOLD"} THEN 5 ELSE 2

\* The set bonus with the last threshold off by one.
bonus_Above5(count) ==
  IF count = 3 THEN 2
  ELSE IF count = 4 THEN 5
  ELSE IF count > 5 THEN 9
  ELSE 0

bonus(count) ==
  IF count = 3 THEN 2
  ELSE IF count = 4 THEN 5
  ELSE IF count >= 5 THEN 9
  ELSE 0

\* A Sell that forgets to take the sold cards off opp_confirmed.
ApplySell_KeepsConfirmed(t, act) ==
  LET good == act.good
      count == act.count
  IN [t EXCEPT
        !.opp_hand_size = @ - count,
        !.sold_cards[good] = @ + count,
        !.opp_score_est = @ + (count * avg_val(good)) + bonus(count)]

\* A Sell that overwrites sold_cards[good] instead of adding to it.
ApplySell_Overwrites(t, act) ==
  LET good == act.good
      count == act.count
      known == t.opp_confirmed[good]
  IN [t EXCEPT
        !.opp_hand_size = @ - count,
        !.opp_confirmed[good] = @ - Min(known, count),
        !.sold_cards[good] = count,
        !.opp_score_est = @ + (count * avg_val(good)) + bonus(count)]

\* CASE A: OPPONENT SOLD
ApplySell(t, act) ==
  LET good == act.good
      count == act.count
      known == t.opp_confirmed[good]
  IN [t EXCEPT
        !.opp_hand_size = @ - count,
        !.opp_confirmed[good] = @ - Min(known, count),
        !.sold_cards[good] = @ + count,
        !.opp_score_est = @ + (count * avg_val(good)) + bonus(count)]

\* A Take that counts camels into the hand size as well.
ApplyTake_CamelInHand(t, act) ==
  LET good == act.good
  IN IF good = CAMEL
     THEN [t EXCEPT !.opp_camels = @ + (IF act.has_count THEN act.count ELSE 1),
                    !.opp_hand_size = @ + 1]
     ELSE [t EXCEPT !.opp_hand_size = @ + 1,
                    !.opp_confirmed[good] = @ + 1]

\* CASE B: OPPONENT TOOK.  getattr(act, '_count', 1) for the camel.
ApplyTake(t, act) ==
  LET good == act.good
  IN IF good = CAMEL
     THEN [t EXCEPT !.opp_camels = @ + (IF act.has_count THEN act.count ELSE 1)]
     ELSE [t EXCEPT !.opp_hand_size = @ + 1,
                    !.opp_confirmed[good] = @ + 1]

\* CASE C: OPPONENT TRADED.  The first loop adds the requested goods of every
\* GoodType member, the second removes the offered ones; each good's entry is
\* touched independently of the others.
ApplyTrade(t, act) ==
  LET req == act.requested_goods
      off == act.offered_goods
      added == [g \in GoodType |->
                  IF req[g] > 0 THEN t.opp_confirmed[g] + req[g]
                  ELSE t.opp_confirmed[g]]
      removed == [g \in GoodType |->
                    IF off[g] > 0 /\ g # CAMEL
                    THEN added[g] - Min(added[g], off[g])
                    ELSE added[g]]
  IN [t EXCEPT
        !.opp_confirmed = removed,
        !.opp_camels = IF off[CAMEL] > 0 THEN Max(0, @ - off[CAMEL]) ELSE @]

\* update() with a final else in place of the elif for Take.
update_ElseTake(t, obs) ==
  IF IsSkipped(t, obs) THEN t
  ELSE LET t1 == [t EXCEPT !.last_action_id = obs.id]
           act == obs.action
       IN IF act.kind = "Sell" THEN ApplySell(t1, act)
          ELSE IF act.kind = "Trade" THEN ApplyTrade(t1, act)
          ELSE ApplyTake(t1, act)

\* GlobalStateTracker.update
update(t, obs) ==
  IF IsSkipped(t, obs) THEN t
  ELSE LET t1 == [t EXCEPT !.last_action_id = obs.id]
           act == obs.action
       IN IF act.kind = "Sell" THEN ApplySell(t1, act)
          ELSE IF act.kind = "Take" THEN ApplyTake(t1, act)
          ELSE IF act.kind = "Trade" THEN ApplyTrade(t1, act)
          ELSE t1

\* get_deck_remaining() without the agent's own hand.
get_deck_remaining_NoHand(t, market_goods, actor_goods) ==
  [g \in GoodType |->
     Max(0, TOTAL_CARDS[g] - market_goods[g]
            - t.opp_confirmed[g] - t.sold_cards[g])]

\* GlobalStateTracker.get_deck_remaining
get_deck_remaining(t, market_goods, actor_goods) ==
  [g \in GoodType |->
     Max(0, TOTAL_CARDS[g] - market_goods[g] - actor_goods[g]
            - t.opp_confirmed[g] - t.sold_cards[g])]

\* ------------------------------------------------------------ the inputs
\* The goods the observed actions are about: a luxury good, a cheap good and
\* the camel.  The tracker keeps an entry for every GoodType member.
ObsGoods == {"DIAMOND", "SPICE", CAMEL}

Bag(g, n) == [h \in GoodType |-> IF h = g THEN n ELSE 0]

SellInputs == {SellAction(g, n) : g \in ObsGoods \ {CAMEL}, n \in 1..MaxSell}

TakeInputs ==
  {TakeAction(g) : g \in ObsGoods} \cup {TakeCamels(n) : n \in 1..MaxCamels}

TradeInputs ==
  {TradeAction(Bag(p[1], n), Bag(p[2], n)) :
     p \in {q \in ObsGoods \X ObsGoods : q[1] # q[2]}, n \in 1..MaxTrade}

ActionInputs == SellInputs \cup TakeInputs \cup TradeInputs \cup {OtherAction}

\* ------------------------------------------------------------------ state
VARIABLES
  tracker,        \* the GlobalStateTracker instance
  obs,            \* the observation of the latest update() call
  path,           \* what that call did: "init", "none", "dup" or "applied"
  calls,          \* number of update() calls so far
  scenario,       \* how many of the first calls were Take(D), Take(D), Sell(D, 2)
  presented,      \* identity -> content of the action objects observed so far
  applied,        \* identity -> how many times update() applied that object
  game,           \* the full-information reference game (GameSpec only)
  sel,            \* the latest select_action() call (SelectSpec only)
  runs,           \* two agent instances on one input sequence (ReproSpec only)
  match,          \* one play_match() call (MatchSpec only)
  evo,            \* the optimizer: evaluate_population, run_evolution
  agents,         \* two agent instances in one process (AgentsSpec only)
  calc,           \* one call of a scoring function (ScoreSpec only)
  train           \* the tracker of train_shark7 beside the agent's (TwinSpec only)

vars ==
  <<tracker, obs, path, calls, scenario, presented, applied, game,
    sel, runs, match, evo, agents, calc, train>>

\* The parts of the state a specification does not use.
Unused == [phase |-> "unused"]

trackerVars == <<tracker, obs, path, calls, scenario, presented, applied>>

otherVars == <<sel, runs, match, evo, agents, calc, train>>

InitOthers ==
  /\ sel = Unused
  /\ runs = Unused
  /\ match = Unused
  /\ evo = Unused
  /\ agents = Unused
  /\ calc = Unused
  /\ train = Unused

Ids == 1..MaxCalls

PathOf(t, o) ==
  IF o.id = NoneId THEN "none"
  ELSE IF IsSkipped(t, o) THEN "dup"
  ELSE "applied"

ScenarioActions ==
  <<TakeAction("DIAMOND"), TakeAction("DIAMOND"), SellAction("DIAMOND", 2)>>

ScenarioNext(o) ==
  IF scenario = calls /\ calls < Len(ScenarioActions)
     /\ o.action = ScenarioActions[calls + 1]
  THEN scenario + 1
  ELSE scenario

\* One call tracker.update(o).
Step(o) ==
  /\ calls' = calls + 1
  /\ obs' = o
  /\ path' = PathOf(tracker, o)
  /\ tracker' = update(tracker, o)
  /\ scenario' = ScenarioNext(o)

Call(o) ==
  /\ calls < MaxCalls
  /\ Step(o)
  /\ UNCHANGED game
  /\ UNCHANGED otherVars

NoGame == [turn |-> "none"]

InitTracker ==
  /\ tracker = TrackerInit
  /\ obs = NoObservation
  /\ path = "init"
  /\ calls = 0
  /\ scenario = 0
  /\ presented = [i \in Ids |-> NoneAct]
  /\ applied = [i \in Ids |-> 0]

Init ==
  /\ InitTracker
  /\ game = NoGame
  /\ InitOthers

\* ---- Spec: every observation carries no action or a new action object.
UpdateNoAction ==
  /\ Call(NoObservation)
  /\ UNCHANGED <<presented, applied>>

UpdateNewAction ==
  /\ \E a \in ActionInputs : Call(Observation(calls + 1, a))
  /\ UNCHANGED <<presented, applied>>

Next == UpdateNoAction \/ UpdateNewAction

Spec == Init /\ [][Next]_vars

\* ---- DedupSpec: any sequence of update() calls.  An observation carries no
\* action, a new action object, or an action object that was observed before
\* (the same object, so the same identity and the same content).
DedupInputs ==
  {a \in ActionInputs :
     /\ a.count <= 1
     /\ \A g \in GoodType : a.requested_goods[g] <= 1 /\ a.offered_goods[g] <= 1}

NewId == Cardinality({i \in Ids : presented[i] # NoneAct}) + 1

Record(o) ==
  /\ presented' = [presented EXCEPT ![o.id] = o.action]
  /\ applied' = [applied EXCEPT ![o.id] = @ + (IF IsSkipped(tracker, o) THEN 0 ELSE 1)]

DedupNoAction ==
  /\ Call(NoObservation)
  /\ UNCHANGED <<presented, applied>>

DedupNewAction ==
  \E a \in DedupInputs :
    /\ Call(Observation(NewId, a))
    /\ Record(Observation(NewId, a))

DedupSameAction ==
  \E i \in Ids :
    /\ presented[i] # NoneAct
    /\ Call(Observation(i, presented[i]))
    /\ Record(Observation(i, presented[i]))

DedupNext == DedupNoAction \/ DedupNewAction \/ DedupSameAction

DedupSpec == Init /\ [][DedupNext]_vars

\* ---- GameSpec: the tracker beside a full-information reference game.  The
\* opponent plays legal Take, Trade and Sell actions; each one is a new action
\* object of the game's action log, and the agent's next select_action passes
\* the observation that carries it to update().  Between two opponent turns
\* the agent takes a card.  The cards in play are those of ObsGoods.
Total(b) ==
  b["DIAMOND"] + b["GOLD"] + b["SILVER"] + b["FABRIC"] + b["SPICE"]
    + b["LEATHER"] + b[CAMEL]

\* hand.count(include_camels=False)
GoodsCount(b) == Total(b) - b[CAMEL]

Bags ==
  {[g \in GoodType |-> IF g \in ObsGoods THEN f[g] ELSE 0] :
     f \in [ObsGoods -> 0..HandLimit]}

Within(b, avail) == \A g \in GoodType : b[g] <= avail[g]

Plus(a, b) == [g \in GoodType |-> a[g] + b[g]]

Minus(a, b) == [g \in GoodType |-> a[g] - b[g]]

Deals == {b \in Bags : Total(b) = DealSize}

\* What refills the market after the opponent took its camels.
Refills == {b \in Bags : Total(b) <= DealSize}

\* The exchanges of the game: at least two cards for as many, no camel
\* requested, no kind of card on both sides.
Trades ==
  {t \in Refills \X Refills :
     /\ t[1][CAMEL] = 0
     /\ Total(t[1]) >= 2
     /\ Total(t[1]) = Total(t[2])
     /\ \A g \in GoodType : t[1][g] = 0 \/ t[2][g] = 0}

InitMarkets == {b \in Deals : b[CAMEL] = MarketCamels}

InitActorGoods == {b \in Deals : b["DIAMOND"] = 2 /\ b[CAMEL] <= 1}

GameInitStates ==
  {[market_goods |-> m, actor_goods |-> a, opp_goods |-> o,
    deck |-> Minus(TOTAL_CARDS, Plus(m, Plus(a, o))),
    opp_sold |-> Counter, sells |-> 0, gained |-> 0, given |-> 0,
    turn |-> first] :
     m \in InitMarkets, a \in InitActorGoods, o \in Deals,
     first \in {"opp", "first"}}

GameInit ==
  /\ InitTracker
  /\ InitOthers
  /\ game \in {s \in GameInitStates : \A g \in GoodType : s.deck[g] >= 0}

\* What update() is called with after the opponent played action a.
Observe(a) ==
  /\ calls < MaxTurns
  /\ Step(Observation(calls + 1, a))
  /\ UNCHANGED <<presented, applied>>
  /\ UNCHANGED otherVars

\* The agent moves first: its select_action sees no action yet.
GameNoAction ==
  /\ game.turn = "first"
  /\ calls < MaxTurns
  /\ Step(NoObservation)
  /\ UNCHANGED <<presented, applied>>
  /\ UNCHANGED otherVars
  /\ game' = [game EXCEPT !.turn = "agent"]

Drawable == {r \in ObsGoods : game.deck[r] > 0}

OppTake ==
  /\ game.turn = "opp"
  /\ calls < MaxTurns
  /\ \E g \in ObsGoods \ {CAMEL}, r \in Drawable :
    /\ game.market_goods[g] > 0
    /\ GoodsCount(game.opp_goods) < HandLimit
    /\ Observe(TakeAction(g))
    /\ game' = [game EXCEPT
                  !.market_goods = Plus(Minus(@, Bag(g, 1)), Bag(r, 1)),
                  !.deck = Minus(@, Bag(r, 1)),
                  !.opp_goods = Plus(@, Bag(g, 1)),
                  !.gained = @ + 1,
                  !.turn = "agent"]

OppTakeCamels ==
  /\ game.turn = "opp"
  /\ calls < MaxTurns
  /\ game.market_goods[CAMEL] > 0
  /\ \E refill \in Refills :
    LET n == game.market_goods[CAMEL]
    IN /\ Total(refill) = n
       /\ Within(refill, game.deck)
       /\ Observe(TakeCamels(n))
       /\ game' = [game EXCEPT
                     !.market_goods = Plus(Minus(@, Bag(CAMEL, n)), refill),
                     !.deck = Minus(@, refill),
                     !.opp_goods = Plus(@, Bag(CAMEL, n)),
                     !.turn = "agent"]

OppSell ==
  /\ game.turn = "opp"
  /\ calls < MaxTurns
  /\ \E g \in ObsGoods \ {CAMEL}, n \in 1..HandLimit :
    /\ n <= game.opp_goods[g]
    /\ Observe(SellAction(g, n))
    /\ game' = [game EXCEPT
                  !.opp_goods = Minus(@, Bag(g, n)),
                  !.opp_sold = Plus(@, Bag(g, n)),
                  !.sells = @ + 1,
                  !.given = @ + n,
                  !.turn = "agent"]

OppTrade ==
  /\ game.turn = "opp"
  /\ calls < MaxTurns
  /\ \E trade \in Trades :
    LET req == trade[1]
        off == trade[2]
    IN
    /\ Within(req, game.market_goods)
    /\ Within(off, game.opp_goods)
    /\ GoodsCount(game.opp_goods) + GoodsCount(req) - GoodsCount(off) <= HandLimit
    /\ Observe(TradeAction(req, off))
    /\ game' = [game EXCEPT
                  !.market_goods = Plus(Minus(@, req), off),
                  !.opp_goods = Plus(Minus(@, off), req),
                  !.gained = @ + GoodsCount(req),
                  !.given = @ + GoodsCount(off),
                  !.turn = "agent"]

AgentTake ==
  /\ game.turn = "agent"
  /\ calls < MaxTurns
  /\ \E g \in ObsGoods \ {CAMEL}, r \in Drawable :
    /\ game.market_goods[g] > 0
    /\ GoodsCount(game.actor_goods) < HandLimit
    /\ game' = [game EXCEPT
                  !.market_goods = Plus(Minus(@, Bag(g, 1)), Bag(r, 1)),
                  !.deck = Minus(@, Bag(r, 1)),
                  !.actor_goods = Plus(@, Bag(g, 1)),
                  !.turn = "opp"]
    /\ UNCHANGED <<tracker, obs, path, calls, scenario, presented, applied>>
    /\ UNCHANGED otherVars

GameNext ==
  \/ GameNoAction
  \/ OppTake
  \/ OppTakeCamels
  \/ OppSell
  \/ OppTrade
  \/ AgentTake

GameSpec == GameInit /\ [][GameNext]_vars

\* ----------------------------------------------------------------- claims
Counters(t) ==
  <<t.opp_confirmed, t.opp_hand_size, t.opp_camels, t.sold_cards, t.opp_score_est>>

IsCall == calls' = calls + 1

\* C1: every distinct action object that was observed has been applied to the
\* counters exactly once: never a second time, whatever was processed in
\* between, and never zero times.
C1_AppliedExactlyOnce ==
  \A i \in Ids : presented[i] # NoneAct => applied[i] = 1

\* C2: a call of update() with the same action object as the call before it
\* leaves opp_confirmed, opp_hand_size, opp_camels, sold_cards and
\* opp_score_est as the first call left them.
C2_Idempotent ==
  [][(IsCall /\ obs.id # NoneId /\ obs' = obs)
       => Counters(tracker') = Counters(tracker)]_vars

C2_Witness ==
  /\ path = "dup"
  /\ applied[obs.id] = 1
  /\ obs.action.kind = "Trade"

\* C3: in the reference game, for every good but the camel, opp_confirmed is
\* at least 0 and at most the number of cards of that good the opponent
\* really holds.
C3_NeverOverClaims ==
  \A g \in GoodType \ {CAMEL} :
    /\ 0 <= tracker.opp_confirmed[g]
    /\ tracker.opp_confirmed[g] <= game.opp_goods[g]

C3_Witness ==
  /\ path = "applied"
  /\ obs.action.kind \in {"Sell", "Trade"}
  /\ \E g \in GoodType \ {CAMEL} :
       /\ tracker.opp_confirmed[g] > 0
       /\ tracker.opp_confirmed[g] = game.opp_goods[g]

\* C4: in the reference game, sold_cards[good] is the sum of the counts of
\* the opponent's Sell actions of that good, and at most TOTAL_CARDS[good].
C4_SoldCards ==
  \A g \in GoodType :
    /\ tracker.sold_cards[g] = game.opp_sold[g]
    /\ tracker.sold_cards[g] <= TOTAL_CARDS[g]

C4_Witness ==
  /\ game.sells = 2
  /\ obs.action.kind = "Sell"
  /\ tracker.sold_cards[obs.action.good] > obs.action.count

\* C5: for the observation of each turn of the agent, get_deck_remaining
\* gives every good a value >= 0 which, added to market_goods[g],
\* actor_goods[g], opp_confirmed[g] and sold_cards[g], is TOTAL_CARDS[g].
C5_DeckRemaining ==
  game.turn = "agent" =>
    \A g \in GoodType :
      LET rem == get_deck_remaining(tracker, game.market_goods, game.actor_goods)[g]
      IN /\ rem >= 0
         /\ rem + game.market_goods[g] + game.actor_goods[g]
              + tracker.opp_confirmed[g] + tracker.sold_cards[g] = TOTAL_CARDS[g]

C5_Witness ==
  /\ game.turn = "agent"
  /\ \E g \in GoodType :
       /\ get_deck_remaining(tracker, game.market_goods, game.actor_goods)[g] = 0
       /\ tracker.sold_cards[g] > 0
       /\ game.market_goods[g] > 0

\* C6: processing a new Sell(good, count) takes count off opp_hand_size, sets
\* opp_confirmed[good] to max(0, old - count), adds count to sold_cards[good],
\* adds count * average unit value + bonus(count) to opp_score_est, where the
\* bonus is 2 for 3 cards, 5 for 4, 9 for 5 or more and 0 otherwise, and
\* changes neither opp_camels nor any other good's entries.  Take(DIAMOND),
\* Take(DIAMOND), Sell(DIAMOND, 2) on a new tracker give
\* opp_confirmed[DIAMOND] = 0 and sold_cards[DIAMOND] = 2.
C6_Bonus(count) ==
  CASE count = 3 -> 2
    [] count = 4 -> 5
    [] count >= 5 -> 9
    [] OTHER -> 0

C6_SellStep ==
  (IsCall /\ path' = "applied" /\ obs'.action.kind = "Sell") =>
    LET good == obs'.action.good
        count == obs'.action.count
    IN /\ tracker'.opp_hand_size = tracker.opp_hand_size - count
       /\ tracker'.opp_confirmed[good] = Max(0, tracker.opp_confirmed[good] - count)
       /\ tracker'.sold_cards[good] = tracker.sold_cards[good] + count
       /\ tracker'.opp_score_est =
            tracker.opp_score_est + count * avg_val(good) + C6_Bonus(count)
       /\ tracker'.opp_camels = tracker.opp_camels
       /\ \A g \in GoodType \ {good} :
            /\ tracker'.opp_confirmed[g] = tracker.opp_confirmed[g]
            /\ tracker'.sold_cards[g] = tracker.sold_cards[g]

C6_Scenario ==
  (scenario = Len(ScenarioActions) /\ calls = Len(ScenarioActions)) =>
    /\ tracker.opp_confirmed["DIAMOND"] = 0
    /\ tracker.sold_cards["DIAMOND"] = 2

C6_SellEffect == [][C6_SellStep]_vars /\ []C6_Scenario

C6_Witness ==
  /\ scenario = Len(ScenarioActions)
  /\ path = "applied"
  /\ obs.action.kind = "Sell"

\* C7: processing a new Take(good): for the camel only opp_camels grows; for
\* any other good opp_hand_size and opp_confirmed[good] grow by exactly 1 and
\* opp_camels, sold_cards, opp_score_est and every other good's
\* opp_confirmed entry stay as they were.
C7_TakeStep ==
  (IsCall /\ path' = "applied" /\ obs'.action.kind = "Take") =>
    LET good == obs'.action.good
    IN /\ tracker'.sold_cards = tracker.sold_cards
       /\ tracker'.opp_score_est = tracker.opp_score_est
       /\ \A g \in GoodType \ {good} :
            tracker'.opp_confirmed[g] = tracker.opp_confirmed[g]
       /\ IF good = CAMEL
          THEN /\ tracker'.opp_camels > tracker.opp_camels
               /\ tracker'.opp_hand_size = tracker.opp_hand_size
               /\ tracker'.opp_confirmed = tracker.opp_confirmed
          ELSE /\ tracker'.opp_camels = tracker.opp_camels
               /\ tracker'.opp_hand_size = tracker.opp_hand_size + 1
               /\ tracker'.opp_confirmed[good] = tracker.opp_confirmed[good] + 1

C7_TakeEffect == [][C7_TakeStep]_vars

C7_Witness ==
  /\ path = "applied"
  /\ obs.action.kind = "Take"
  /\ obs.action.good # CAMEL
  /\ tracker.opp_confirmed[obs.action.good] = 2
  /\ tracker.opp_camels > 0

\* C8: processing a new Trade(requested, offered): every non-camel good's
\* opp_confirmed entry grows by requested[g] and then shrinks by
\* min(entry, offered[g]); requested or offered camels change no opp_confirmed
\* entry (the camel's included) and not opp_hand_size.
C8_TradeStep ==
  (IsCall /\ path' = "applied" /\ obs'.action.kind = "Trade") =>
    LET req == obs'.action.requested_goods
        off == obs'.action.offered_goods
    IN /\ \A g \in GoodType \ {CAMEL} :
            LET grown == tracker.opp_confirmed[g] + req[g]
            IN tracker'.opp_confirmed[g] = grown - Min(grown, off[g])
       /\ tracker'.opp_confirmed[CAMEL] = tracker.opp_confirmed[CAMEL]
       /\ tracker'.opp_hand_size = tracker.opp_hand_size

C8_TradeEffect == [][C8_TradeStep]_vars

\* C9: in the reference game opp_hand_size is its initial value plus the
\* non-camel cards the opponent gained by Take and Trade, minus the non-camel
\* cards it gave up by Trade and Sell.
C9_HandSizeFollowsFlow ==
  tracker.opp_hand_size = TrackerInit.opp_hand_size + game.gained - game.given

\* C10: a call of update() whose observation carries no action, or an action
\* that is no Sell, Take or Trade, completes and leaves opp_confirmed,
\* opp_hand_size, opp_camels, sold_cards and opp_score_est as they were.
C10_IgnoredStep ==
  (IsCall /\ (obs'.id = NoneId
              \/ obs'.action.kind \notin {"Sell", "Take", "Trade"})) =>
    Counters(tracker') = Counters(tracker)

C10_Ignored == [][C10_IgnoredStep]_vars

C10_Witness ==
  /\ path = "applied"
  /\ obs.action.kind = "Other"
  /\ tracker.last_action_id = obs.id
  /\ tracker.opp_confirmed # Counter
  /\ tracker.opp_score_est > 0

\* ------------------------------------------------- SharkAgent7: the scorer
\* The scores of the source are floating-point numbers.  Here a score is an
\* integer number of millionths of a point and a genome weight an integer
\* number of thousandths, so that a product of a weight and a total of
\* weights and points is exact.  The two quotients of the source
\* (cheap_mult * 0.75 at a quarter of a millionth, the fishing ratio) are
\* rounded down to a millionth.
Points(n) == n * 1000000

Weight(w) == w * 1000

\* SharkAgent7.__init__: the evolved genome, in thousandths.
SharkAgent7Genome ==
  [bonus_3_est |-> 1561, bonus_4_est |-> 1512, bonus_5_est |-> 47439,
   luxury_mult |-> 251, cheap_mult |-> 5911, pressure_weight |-> 7691,
   camel_min_util |-> 4203, camel_take_val |-> -94, fishing_bonus |-> 831,
   trade_set_bonus |-> 4024, luxury_take_add |-> 355,
   set_break_penalty |-> 76381, denial_weight |-> 20,
   impossible_sell_bonus |-> 15739, scarcity_bonus |-> 12783,
   waste_penalty |-> 107, endgame_rush_bonus |-> 20037,
   endgame_camel_value |-> 102, mercy_kill_bonus |-> 1024]

Luxury == {"DIAMOND", "GOLD", "SILVER"}

Cheap == {"LEATHER", "SPICE", "FABRIC"}

\* sum(tokens[-n:]) for 0 <= n <= len(tokens); the top token is the last.
RECURSIVE SumLast(_, _)
SumLast(tokens, n) ==
  IF n = 0 THEN 0
  ELSE tokens[Len(tokens)] + SumLast(SubSeq(tokens, 1, Len(tokens) - 1), n - 1)

\* obs.market_goods_coins.get(good, []): a good without a stack reads as [].
Tokens(o, good) == o.market_goods_coins[good]

\* tokens[-1] if tokens else dflt
TopToken(o, good, dflt) ==
  LET tokens == Tokens(o, good)
  IN IF tokens = <<>> THEN dflt ELSE tokens[Len(tokens)]

EmptyPiles(o) == Cardinality({g \in GoodType : Tokens(o, g) = <<>>})

_calculate_my_current_score(o) == o.my_score

\* A value that pays the top token for every card sold.
_get_exact_value_TopTimesCount(good, count, o) ==
  LET tokens == Tokens(o, good)
  IN IF tokens = <<>> THEN 0 ELSE count * tokens[Len(tokens)]

_get_exact_value(good, count, o) ==
  LET tokens == Tokens(o, good)
      real_sales == Min(count, Len(tokens))
  IN IF tokens = <<>> THEN 0 ELSE SumLast(tokens, real_sales)

\* A potential that also counts sets of fewer than three cards.
_calculate_opponent_potential_NoMinimum(good, opp_confirmed_count, deck_remaining, o) ==
  LET max_possible ==
        opp_confirmed_count + deck_remaining[good] + o.market_goods[good]
      potential_count == opp_confirmed_count + 1
      tokens == Tokens(o, good)
      take_n == Min(potential_count, Len(tokens))
  IN IF potential_count > max_possible THEN 0
     ELSE IF tokens = <<>> THEN 0
     ELSE SumLast(tokens, take_n) + (IF potential_count = 3 THEN 2 ELSE 5)

\* In points: the 2.0 and 5.0 of the source are whole.
_calculate_opponent_potential(good, opp_confirmed_count, deck_remaining, o) ==
  LET max_possible ==
        opp_confirmed_count + deck_remaining[good] + o.market_goods[good]
      potential_count == opp_confirmed_count + 1
      tokens == Tokens(o, good)
      take_n == Min(potential_count, Len(tokens))
  IN IF potential_count > max_possible THEN 0
     ELSE IF potential_count < 3 THEN 0
     ELSE IF tokens = <<>> THEN 0
     ELSE SumLast(tokens, take_n) + (IF potential_count = 3 THEN 2 ELSE 5)

\* The set bonus estimate of a sale, in thousandths.
sell_bonus(params, count) ==
  IF count = 3 THEN params.bonus_3_est
  ELSE IF count = 4 THEN params.bonus_4_est
  ELSE IF count >= 5 THEN params.bonus_5_est
  ELSE 0

\* total of _score_sell, in thousandths.
sell_total(params, action, o, opp_confirmed, deck, is_endgame, am_i_winning) ==
  LET good == action.good
      count == action.count
      points == _get_exact_value(good, count, o)
      tokens_available == Len(Tokens(o, good))
      waste_penalty ==
        IF count > tokens_available
        THEN params.waste_penalty * (count - tokens_available)
        ELSE 0
      impossible ==
        deck[good] = 0 /\ opp_confirmed[good] = 0 /\ o.market_goods[good] = 0
      mercy_kill_bonus ==
        IF am_i_winning /\ tokens_available <= count /\ EmptyPiles(o) >= 2
        THEN params.mercy_kill_bonus
        ELSE 0
      opp_has_good == opp_confirmed[good]
      race_bonus ==
        (IF good \in Luxury /\ opp_has_good >= 2 /\ count >= 3
         THEN 8000 ELSE 0)
        + (IF impossible THEN params.impossible_sell_bonus ELSE 0)
        + (IF is_endgame /\ count >= 3 THEN params.endgame_rush_bonus ELSE 0)
  IN (points * 1000) + sell_bonus(params, count) + race_bonus
       + mercy_kill_bonus - waste_penalty

_score_sell(params, action, o, pressure, opp_confirmed, deck, is_endgame, am_i_winning) ==
  LET good == action.good
      count == action.count
      total ==
        sell_total(params, action, o, opp_confirmed, deck, is_endgame,
                   am_i_winning)
  IN IF good \in Luxury THEN (total * params.luxury_mult) + pressure
     ELSE IF good \in Cheap /\ count >= 5
       THEN (total * params.cheap_mult) + pressure + Points(10)
     ELSE IF good \in Cheap /\ count = 4
       THEN ((total * params.cheap_mult * 3) \div 4) + pressure + Points(5)
     ELSE IF good \in Cheap /\ is_endgame /\ count >= 3
       THEN Weight(total) + pressure
     ELSE IF good \in Cheap /\ count <= 2 /\ pressure < Points(10)
       THEN Points(-50)
     ELSE Weight(total) + pressure

\* The camel branch of _score_take.
score_take_camel(params, o, is_endgame, deck) ==
  LET wanted ==
        Total([t \in GoodType |->
                 IF t # CAMEL /\ o.actor_goods[t] >= 2 THEN deck[t] ELSE 0])
      deck_total == Total(deck)
      fishing_score ==
        IF deck_total > 0
        THEN (wanted * Weight(params.fishing_bonus)) \div deck_total
        ELSE 0
      my_camels == o.actor_goods[CAMEL]
  IN IF is_endgame THEN Weight(params.endgame_camel_value)
     ELSE IF my_camels < 2 THEN Weight(params.camel_min_util)
     ELSE Weight(params.camel_take_val) + fishing_score

_score_take(params, action, o, current_hand_size, pressure, opp_confirmed, opp_locked, is_endgame, deck) ==
  LET good == action.good
      in_hand == o.actor_goods[good]
      scarcity_bonus ==
        IF deck[good] = 0 THEN Weight(params.scarcity_bonus)
        ELSE IF deck[good] = 1 THEN Weight(params.scarcity_bonus) \div 2
        ELSE 0
      opp_count == opp_confirmed[good]
      threat_value == _calculate_opponent_potential(good, opp_count, deck, o)
      score1 ==
        Points(TopToken(o, good, 1))
        + (IF in_hand = 3 THEN Points(15) + scarcity_bonus ELSE 0)
        + (IF in_hand = 4 THEN Points(20) + scarcity_bonus ELSE 0)
        + (IF good \in {"DIAMOND", "GOLD"}
           THEN Weight(params.luxury_take_add) ELSE 0)
        + (IF threat_value > 0
           THEN Weight(threat_value * params.denial_weight) ELSE 0)
      score2 ==
        IF opp_locked /\ score1 < Points(20) THEN score1 - Points(2)
        ELSE score1
  IN IF good = CAMEL THEN score_take_camel(params, o, is_endgame, deck)
     ELSE score2 - pressure

\* value_in of _score_trade before the hand-space bonus, in millionths.
trade_value_in(params, req, o, deck) ==
  Total([g \in GoodType |->
           IF req[g] > 0
           THEN IF o.actor_goods[g] + req[g] >= 5
                  THEN Weight(params.trade_set_bonus)
                ELSE IF o.actor_goods[g] + req[g] = 4 /\ deck[g] = 0
                  THEN Weight(params.trade_set_bonus)
                ELSE Points(TopToken(o, g, 0))
           ELSE 0])

trade_completes_set(req, o) ==
  \E g \in GoodType : req[g] > 0 /\ o.actor_goods[g] + req[g] >= 5

trade_value_out(params, off, o) ==
  Total([g \in GoodType |->
           IF off[g] > 0
           THEN IF g = CAMEL THEN Points(2)
                ELSE Points(TopToken(o, g, 0))
                     + (IF o.actor_goods[g] >= 3
                        THEN IF g \in Luxury
                               THEN Weight(params.set_break_penalty)
                             ELSE Points(2)
                        ELSE 0)
           ELSE 0])

_score_trade(params, action, o, current_hand_size, deck) ==
  LET req == action.requested_goods
      off == action.offered_goods
      count_in == GoodsCount(req)
      count_out == GoodsCount(off)
      space_change == count_in - count_out
      value_in ==
        trade_value_in(params, req, o, deck)
        + (IF current_hand_size >= 6 /\ space_change < 0
           THEN Points(10) ELSE 0)
      value_out == trade_value_out(params, off, o)
  IN IF trade_completes_set(req, o)
     THEN Points(100) + (value_in - value_out)
     ELSE value_in - value_out

\* Step 2 and 3 of select_action: the context derived from the tracker (after
\* its update) and the observation.
Context(params, t, o) ==
  LET cards_in_deck == o.market_reserved_goods_count
      empty_piles == EmptyPiles(o)
      my_score == _calculate_my_current_score(o)
      opp_score == t.opp_score_est
      hand_size == GoodsCount(o.actor_goods)
      limit == o.max_player_goods_count
  IN [opp_confirmed |-> t.opp_confirmed,
      deck_remaining |-> get_deck_remaining(t, o.market_goods, o.actor_goods),
      opp_locked |-> t.opp_hand_size >= 7,
      is_endgame |-> (cards_in_deck <= 8) \/ (empty_piles >= 2),
      am_i_winning |-> my_score > opp_score + 10,
      hand_size |-> hand_size,
      limit |-> limit,
      pressure |->
        IF hand_size >= limit THEN Weight(20 * params.pressure_weight)
        ELSE IF hand_size >= limit - 1 THEN Weight(5 * params.pressure_weight)
        ELSE 0]

\* The score of one action before the jitter: the isinstance dispatch.
Score(params, action, o, c) ==
  IF action.kind = "Sell"
    THEN _score_sell(params, action, o, c.pressure, c.opp_confirmed,
                     c.deck_remaining, c.is_endgame, c.am_i_winning)
  ELSE IF action.kind = "Take"
    THEN _score_take(params, action, o, c.hand_size, c.pressure,
                     c.opp_confirmed, c.opp_locked, c.is_endgame,
                     c.deck_remaining)
  ELSE IF action.kind = "Trade"
    THEN _score_trade(params, action, o, c.hand_size, c.deck_remaining)
  ELSE 0

\* float('-inf'): below every score, and unchanged by adding the jitter.
NegInf == -2000000000

AddJitter(score, j) == IF score = NegInf THEN NegInf ELSE score + j

\* best_action = None; best_score = float('-inf').  An action is its position
\* in the list; 0 is None.
NoBest == [action |-> 0, score |-> NegInf]

RECURSIVE Evaluate(_, _, _, _)
\* for action in actions: the rest of the loop from position i on.
Evaluate(scores, jitter, i, best) ==
  IF i > Len(scores) THEN best
  ELSE LET score == AddJitter(scores[i], jitter[i])
       IN Evaluate(scores, jitter, i + 1,
                   IF score > best.score
                   THEN [action |-> i, score |-> score]
                   ELSE best)

\* A select_action whose best score starts at 0 instead of float('-inf').
best_action_Zero(scores, jitter) ==
  Evaluate(scores, jitter, 1, [action |-> 0, score |-> 0]).action

\* Step 4 of select_action: the position of the returned action, 0 for None.
best_action(scores, jitter) == Evaluate(scores, jitter, 1, NoBest).action

\* ---- SelectSpec: select_action of one SharkAgent7 instance, called with
\* observations of a few game situations and with every list of at most
\* MaxActions candidate actions.
\* The token stacks of a game in progress; the camel has no stack.
Stacks ==
  [g \in GoodType |->
     CASE g = "DIAMOND" -> <<5, 5, 5, 7>>
       [] g = "GOLD" -> <<5, 5, 5, 6, 6>>
       [] g = "SILVER" -> <<5, 5, 5, 5, 5>>
       [] g = "FABRIC" -> <<1, 1, 2, 2, 3, 3, 5>>
       [] g = "SPICE" -> <<1, 1, 2, 2, 3, 3>>
       [] g = "LEATHER" -> <<1, 1, 1, 1, 1, 1, 2, 3, 4>>
       [] OTHER -> <<>>]

\* Late in the game: the spice and silver stacks are sold out.
LateStacks ==
  [Stacks EXCEPT !["SPICE"] = <<>>, !["SILVER"] = <<>>, !["DIAMOND"] = <<5>>]

Goods(d, g, s, l, c) ==
  [h \in GoodType |->
     CASE h = "DIAMOND" -> d
       [] h = "GOLD" -> g
       [] h = "SPICE" -> s
       [] h = "LEATHER" -> l
       [] h = CAMEL -> c
       [] OTHER -> 0]

\* What select_action reads of an observation, apart from obs.action.
\* Early in the game, with a small hand.
EarlyScene ==
  [market_goods_coins |-> Stacks, market_goods |-> Goods(1, 0, 1, 2, 1),
   actor_goods |-> Goods(2, 0, 1, 0, 0), my_score |-> 7,
   market_reserved_goods_count |-> 30,
   max_player_goods_count |-> HandLimit]

\* A hand at the limit that holds two luxury sets.
FullHandScene ==
  [market_goods_coins |-> Stacks, market_goods |-> Goods(1, 0, 2, 1, 1),
   actor_goods |-> Goods(3, 3, 1, 0, 2), my_score |-> 7,
   market_reserved_goods_count |-> 20,
   max_player_goods_count |-> HandLimit]

\* The endgame, one card below the hand limit and ahead on points.
EndgameScene ==
  [market_goods_coins |-> LateStacks, market_goods |-> Goods(1, 0, 1, 2, 1),
   actor_goods |-> Goods(1, 0, 4, 1, 2), my_score |-> 40,
   market_reserved_goods_count |-> 6,
   max_player_goods_count |-> HandLimit]

\* Mid-game: the silver stack alone is sold out, 25 cards are in the deck.
SoldOutScene ==
  [market_goods_coins |-> [Stacks EXCEPT !["SILVER"] = <<>>],
   market_goods |-> Goods(1, 0, 1, 2, 1),
   actor_goods |-> Goods(0, 0, 3, 1, 1), my_score |-> 20,
   market_reserved_goods_count |-> 25,
   max_player_goods_count |-> HandLimit]

Scenes == {EarlyScene, FullHandScene, EndgameScene, SoldOutScene}

\* The observation of a select_action call: a scene and the opponent's
\* latest action.
SceneObservation(scene, i, a) ==
  [id |-> i, action |-> a,
   market_goods_coins |-> scene.market_goods_coins,
   market_goods |-> scene.market_goods,
   actor_goods |-> scene.actor_goods,
   my_score |-> scene.my_score,
   market_reserved_goods_count |-> scene.market_reserved_goods_count,
   max_player_goods_count |-> scene.max_player_goods_count]

\* Longest list of actions select_action is called with.
MaxActions == 2

CandidateActions ==
  {SellAction("DIAMOND", 2), SellAction("SPICE", 1),
   TakeAction("SPICE"), TakeAction("DIAMOND"), TakeAction(CAMEL),
   TradeAction(Plus(Bag("SPICE", 1), Bag("LEATHER", 1)),
               Plus(Bag("DIAMOND", 1), Bag("GOLD", 1))),
   OtherAction}

\* random.random() * 0.1 lies in [0, 0.1): its least and its greatest value,
\* in millionths.
JitterValues == {0, 99999}

\* What the opponent did before the call.
OppActions == {NoneAct, TakeAction("DIAMOND")}

NoSelection == [phase |-> "init"]

\* The game engine prepares a turn of the agent: the observation, and then
\* the list of actions, one action at a time.
Observed(scene, a) ==
  /\ calls < MaxCalls
  /\ sel.phase \in {"init", "returned"}
  /\ sel' = [phase |-> "offer",
             o |-> SceneObservation(scene,
                     IF a = NoneAct THEN NoneId ELSE calls + 1, a),
             actions |-> <<>>]
  /\ UNCHANGED <<trackerVars, game, runs, match, evo, agents, calc, train>>

NewTurn == \E scene \in Scenes, a \in OppActions : Observed(scene, a)

Offer ==
  /\ sel.phase = "offer"
  /\ Len(sel.actions) < MaxActions
  /\ \E a \in CandidateActions :
       sel' = [sel EXCEPT !.actions = Append(@, a)]
  /\ UNCHANGED <<trackerVars, game, runs, match, evo, agents, calc, train>>

\* The record of one select_action call: the arguments, the scores before
\* the jitter, the jitter drawn for each action and the returned action
\* (its position in the list and the action, 0 and NoneAct for None).
Selection(params, t, o, actions, jitter) ==
  LET c == Context(params, t, o)
      scores == [i \in 1..Len(actions) |-> Score(params, actions[i], o, c)]
      best == best_action(scores, jitter)
  IN [phase |-> "returned", o |-> o, actions |-> actions, scores |-> scores,
      jitter |-> jitter, hand_size |-> c.hand_size, limit |-> c.limit,
      is_endgame |-> c.is_endgame,
      index |-> best,
      returned |-> IF best = 0 THEN NoneAct ELSE actions[best]]

\* SharkAgent7.select_action(actions, o, simulate_action_fnc); each action of
\* the list gets its own draw of random.random().
select_action(o, actions) ==
  /\ Step(o)
  /\ \E jitter \in [1..Len(actions) -> JitterValues] :
       sel' = Selection(SharkAgent7Genome, update(tracker, o), o, actions,
                        jitter)
  /\ UNCHANGED <<presented, applied, game, runs, match, evo, agents, calc, train>>

Select ==
  /\ sel.phase = "offer"
  /\ select_action(sel.o, sel.actions)

SelectInit ==
  /\ InitTracker
  /\ game = NoGame
  /\ sel = NoSelection
  /\ runs = Unused
  /\ match = Unused
  /\ evo = Unused
  /\ agents = Unused
  /\ calc = Unused
  /\ train = Unused

SelectNext == NewTurn \/ Offer \/ Select

SelectSpec == SelectInit /\ [][SelectNext]_vars

\* ---- ReproSpec: two SharkAgent7 instances built with the same seed and the
\* same genome, each in a process of its own whose random module starts in
\* the same state, and both given the same observations and action lists.
\* random is the module-level generator of the process: every caller of
\* random.random() in that process advances it.
\* Number of values the generator of a process hands out in one run.
MaxDraws == 4

\* The values a generator hands out, as jitter: one stream per seed.
Streams == [1..MaxDraws -> JitterValues]

\* Two sales with the same score before the jitter, and a better action.
ReproActions ==
  {SellAction("SPICE", 1), SellAction("LEATHER", 1), TakeAction("DIAMOND")}

ReproLists == UNION {[1..n -> ReproActions] : n \in 1..MaxActions}

Instances == {1, 2}

\* The jitter of a call that starts at position pos of the stream.
Draws(stream, pos, n) == [i \in 1..n |-> stream[pos + i]]

ReproInit ==
  /\ InitTracker
  /\ game = NoGame
  /\ sel = Unused
  /\ match = Unused
  /\ evo = Unused
  /\ agents = Unused
  /\ calc = Unused
  /\ train = Unused
  /\ \E stream \in Streams :
       runs = [stream |-> stream,
               drawn |-> [k \in Instances |-> 0],
               tracker |-> [k \in Instances |-> TrackerInit],
               returned |-> [k \in Instances |-> <<>>]]

\* Both instances get their next turn, with the same arguments.
BothSelect ==
  \E actions \in ReproLists :
    LET o == SceneObservation(EarlyScene, NoneId, NoneAct)
        n == Len(actions)
        result(k) ==
          Selection(SharkAgent7Genome, update(runs.tracker[k], o), o, actions,
                    Draws(runs.stream, runs.drawn[k], n))
    IN /\ \A k \in Instances : runs.drawn[k] + n <= MaxDraws
       /\ runs' = [runs EXCEPT
                     !.drawn = [k \in Instances |-> @[k] + n],
                     !.tracker = [k \in Instances |-> update(@[k], o)],
                     !.returned =
                       [k \in Instances |-> Append(@[k], result(k).returned)]]
       /\ UNCHANGED <<trackerVars, game, sel, match, evo, agents, calc, train>>

\* Another agent of the process of instance k calls random.random() between
\* two turns of the instance.
OtherAgentDraws ==
  \E k \in Instances :
    /\ runs.drawn[k] < MaxDraws
    /\ runs' = [runs EXCEPT !.drawn[k] = @ + 1]
    /\ UNCHANGED <<trackerVars, game, sel, match, evo, agents, calc, train>>

ReproNext == BothSelect \/ OtherAgentDraws

ReproSpec == ReproInit /\ [][ReproNext]_vars

\* ------------------------------------------------ train_shark7: play_match
\* ---- MatchSpec: one call play_match(seed, genome), statement by
\* statement.  The constructors of the agents, the calls into the game
\* engine and select_action are code outside play_match: each of them
\* returns or raises an exception.
\* Largest seed of a game, and most turns of one game.
MaxSeed == 3

MaxGameTurns == 3

\* The bands of roll: roll < 0.6, roll < 0.9, and the rest.
Villains == {"Boss_V6", "Aggressor_Shark", "Teacher_Smart"}

\* calculate_reward of a player at the end of a game.
Rewards == 0..2

Running(seed) ==
  [pc |-> "hero", seed |-> seed, villain |-> "none", first |-> "none",
   turns |-> 0, failed_at |-> "none", outcome |-> "running", value |-> 0]

\* return value
Return(m, value) == [m EXCEPT !.pc = "done", !.outcome = "returned", !.value = value]

\* An exception raised at site inside the try block: except Exception.
Caught(m, site) == Return([m EXCEPT !.failed_at = site], 0)

\* An exception raised at site outside the try block leaves play_match.
Escapes(m, site) ==
  [m EXCEPT !.pc = "done", !.failed_at = site, !.outcome = "raised"]

MatchFrame == UNCHANGED <<trackerVars, game, sel, runs, evo, agents, calc, train>>

\* hero = ParametricSharkOmega(seed, "Hero", genome)
ConstructHero ==
  /\ match.pc = "hero"
  /\ \/ match' = [match EXCEPT !.pc = "villain"]
     \/ match' = Escapes(match, "hero")
  /\ MatchFrame

\* roll = random.random() and the constructor of the villain it selects;
\* then players and order.
ConstructVillain ==
  /\ match.pc = "villain"
  /\ \/ \E v \in Villains :
          match' = [match EXCEPT
                      !.pc = "game", !.villain = v,
                      !.first = IF match.seed % 2 = 0 THEN "Hero" ELSE v]
     \/ match' = Escapes(match, "villain")
  /\ MatchFrame

\* game = BasicBazaar(seed=seed, players=order); state = game.state
CreateGame ==
  /\ match.pc = "game"
  /\ \/ match' = [match EXCEPT !.pc = "loop"]
     \/ match' = Caught(match, "game")
  /\ MatchFrame

\* One round of the while loop: the game is over or has no action for the
\* actor (break), or the actor plays a turn.
PlayTurn ==
  /\ match.pc = "loop"
  /\ \/ match' = [match EXCEPT !.pc = "reward"]
     \/ /\ match.turns < MaxGameTurns
        /\ match' = [match EXCEPT !.turns = @ + 1]
     \/ match' = Caught(match, "turn")
  /\ MatchFrame

\* scores = {...}; return 1 if scores[hero.uuid] > scores[villain.uuid] else 0
Reward ==
  /\ match.pc = "reward"
  /\ \/ \E hero \in Rewards, villain \in Rewards :
          match' = Return(match, IF hero > villain THEN 1 ELSE 0)
     \/ match' = Caught(match, "reward")
  /\ MatchFrame

MatchInit ==
  /\ InitTracker
  /\ game = NoGame
  /\ sel = Unused
  /\ runs = Unused
  /\ evo = Unused
  /\ agents = Unused
  /\ calc = Unused
  /\ train = Unused
  /\ \E seed \in 0..MaxSeed : match = Running(seed)

MatchNext ==
  \/ ConstructHero
  \/ ConstructVillain
  \/ CreateGame
  \/ PlayTurn
  \/ Reward

MatchSpec == MatchInit /\ [][MatchNext]_vars

\* ---------------------------------------- train_shark7: evaluate_population
\* The sizes of the optimizer, scaled down from the 50 genomes, 400 games per
\* genome and 200 generations of the source; the pool has cpu_count workers.
POPULATION_SIZE == 5

GAMES_PER_MATCH == 3

GENERATIONS == 2

Workers == 2

\* The games of a league battle are the tasks k = 0, 1, ... in the order of
\* tasks.append: task k is (seed k, population[k // GAMES_PER_MATCH]).
Tasks(n) == 0..(n * GAMES_PER_MATCH - 1)

GenomeOf(k) == k \div GAMES_PER_MATCH

\* What the games of one league battle do: which seeds the hero wins, and
\* whether a play_match call raises.
Leagues == {"none", "even", "third", "first", "crash"}

run_match_task(league, k) ==
  CASE league = "none" -> 0
    [] league = "even" -> IF k % 2 = 0 THEN 1 ELSE 0
    [] league = "third" -> IF k % 3 = 0 THEN 1 ELSE 0
    [] league = "first" -> IF GenomeOf(k) = 0 THEN 1 ELSE 0
    [] OTHER -> IF k % 2 = 1 THEN 1 ELSE 0

Raises(league, k) == league = "crash" /\ k = 1

\* The sizes of the populations run_evolution evaluates: the first one and
\* the later ones.
PopulationSizes == {2 * (POPULATION_SIZE \div 2), POPULATION_SIZE}

\* A pool that hands out results as they complete, in any order.
Yieldable_Unordered(finished, yielded) == finished

\* pool.imap: the next result handed to the for loop is that of the task
\* after the ones already handed out, once that task has finished.
Yieldable(finished, yielded) == finished \cap {yielded}

\* wins_per_agent after the loop of line 564; every result is 0 or 1.
wins_per_agent(results, n) ==
  [i \in 1..n |->
     Cardinality({idx \in 0..(Len(results) - 1) :
                    GenomeOf(idx) = i - 1 /\ results[idx + 1] = 1})]

EvalFrame == UNCHANGED <<trackerVars, game, sel, runs, match, agents, calc, train>>

EvalInit ==
  /\ InitTracker
  /\ game = NoGame
  /\ sel = Unused
  /\ runs = Unused
  /\ match = Unused
  /\ agents = Unused
  /\ calc = Unused
  /\ train = Unused
  /\ \E n \in PopulationSizes, league \in Leagues :
       evo = [phase |-> "pool", n |-> n, league |-> league, next |-> 0,
              running |-> {}, finished |-> {}, overtook |-> FALSE,
              results |-> <<>>, wins_per_agent |-> <<>>]

\* An idle worker process takes the next task.
WorkerStart ==
  /\ evo.phase = "pool"
  /\ evo.next \in Tasks(evo.n)
  /\ Cardinality(evo.running) < Workers
  /\ evo' = [evo EXCEPT !.running = @ \cup {evo.next}, !.next = @ + 1]
  /\ EvalFrame

\* A worker process finishes run_match_task for its task.
WorkerFinish ==
  /\ evo.phase = "pool"
  /\ \E k \in evo.running :
       evo' = [evo EXCEPT
                 !.running = @ \ {k},
                 !.finished = @ \cup {k},
                 !.overtook = @ \/ (\E j \in evo.running : j < k)]
  /\ EvalFrame

\* One round of "for i, res in enumerate(pool.imap(...))": the exception of
\* the task is raised again, or its result is appended and the progress is
\* printed.
Yield ==
  /\ evo.phase = "pool"
  /\ \E k \in Yieldable(evo.finished, Len(evo.results)) :
       LET i == Len(evo.results)
           total == evo.n * GAMES_PER_MATCH
       IN evo' =
            IF Raises(evo.league, k) \/ total \div 10 = 0
            THEN [evo EXCEPT !.phase = "raised"]
            ELSE [evo EXCEPT
                    !.finished = @ \ {k},
                    !.results = Append(@, run_match_task(evo.league, k))]
  /\ EvalFrame

\* After the with block: the reduction, and return wins_per_agent.
Reduce ==
  /\ evo.phase = "pool"
  /\ Len(evo.results) = evo.n * GAMES_PER_MATCH
  /\ evo' = [evo EXCEPT
               !.phase = "done",
               !.wins_per_agent = wins_per_agent(evo.results, evo.n)]
  /\ EvalFrame

EvalNext == WorkerStart \/ WorkerFinish \/ Yield \/ Reduce

EvalSpec == EvalInit /\ [][EvalNext]_vars

\* -------------------------------------------- train_shark7: run_evolution
\* ---- EvolveSpec: run_evolution, one generation after the other.  A genome
\* is a dict object: the heap maps the identity of each genome object to its
\* weights, and population, survivors, new_pop and best_all_time hold
\* identities.  Two of the GENOME_KEYS and two values per weight stand for
\* the nineteen keys and their real values.
GENOME_KEYS == <<"luxury_mult", "pressure_weight">>

WeightValues == {1, 2}

Genome(a, b) == [k \in {"luxury_mult", "pressure_weight"} |->
                   IF k = "luxury_mult" THEN a ELSE b]

\* What the draws of random decide for one key in mutate: no mutation, a
\* standard mutation, or a catastrophic one.  The generator of a run hands
\* out one of these cyclic streams.
MutationStreams ==
  {<<"keep">>, <<"scale">>, <<"keep", "scale">>, <<"random", "keep", "keep">>}

Drawn(stream, d) == stream[(d % Len(stream)) + 1]

\* new_genome[k] after the loop body for key k.
Mutated(value, draw) ==
  IF draw = "random" THEN 2
  ELSE IF draw = "scale" THEN 3 - value
  ELSE value

\* A mutate that changes the genome it is given instead of a copy of it.
mutate_InPlace(heap, genome, stream, drawn) ==
  LET new_genome ==
        [k \in DOMAIN heap[genome] |->
           Mutated(heap[genome][k],
                   Drawn(stream,
                         drawn + (IF k = GENOME_KEYS[1] THEN 0 ELSE 1)))]
  IN [heap |-> [heap EXCEPT ![genome] = new_genome], child |-> genome]

\* mutate(genome, rate, strength, catastrophic_rate): new_genome is a deep
\* copy, a new object; the draws for the keys are stream[drawn], ...
mutate(heap, genome, stream, drawn) ==
  LET new_genome ==
        [k \in DOMAIN heap[genome] |->
           Mutated(heap[genome][k],
                   Drawn(stream,
                         drawn + (IF k = GENOME_KEYS[1] THEN 0 ELSE 1)))]
  IN [heap |-> Append(heap, new_genome), child |-> Len(heap) + 1]

\* evaluate_population(population) for a league: the wins in task order.
evaluate_population(n, league) ==
  wins_per_agent([k \in 1..(n * GAMES_PER_MATCH) |->
                    run_match_task(league, k - 1)], n)

\* The position of entry i after scored_pop.sort(key=wins, reverse=True):
\* the sort is stable, entries with equal wins keep their order.
Rank(wins, i) ==
  Cardinality({j \in 1..Len(wins) :
                 wins[j] > wins[i] \/ (wins[j] = wins[i] /\ j < i)}) + 1

scored_pop(wins, population) ==
  [p \in 1..Len(wins) |->
     LET i == CHOOSE i \in 1..Len(wins) : Rank(wins, i) = p
     IN [wins |-> wins[i], genome |-> population[i]]]

\* The population sizes run_evolution is configured with: POPULATION_SIZE and
\* the size below it.
ConfiguredSizes == {POPULATION_SIZE - 1, POPULATION_SIZE}

\* cutoff = int(POPULATION_SIZE * 0.2), for the configured size.
cutoff(size) == (size * 2) \div 10

\* None, as a genome.
NoGenome == 0

\* Simulated annealing, lines 588-592: progress = gen / GENERATIONS, and the
\* three parameters of mutate in millionths (rounded down to a millionth).
current_rate(gen) == 500000 - ((400000 * gen) \div GENERATIONS)

current_strength(gen) == 800000 - ((600000 * gen) \div GENERATIONS)

current_catastrophic(gen) == 100000 - ((90000 * gen) \div GENERATIONS)

\* The parameters of generation gen, as run_evolution passes them to mutate.
Annealed(gen) ==
  [rate |-> current_rate(gen), strength |-> current_strength(gen),
   catastrophic |-> current_catastrophic(gen)]

EvolveFrame == UNCHANGED <<trackerVars, game, sel, runs, match, agents, calc, train>>

\* The population of line 580-583, best_all_time = (0, None), and gen = 0.
EvolveInit ==
  /\ InitTracker
  /\ game = NoGame
  /\ sel = Unused
  /\ runs = Unused
  /\ match = Unused
  /\ agents = Unused
  /\ calc = Unused
  /\ train = Unused
  /\ \E size \in ConfiguredSizes, stream \in MutationStreams,
        b \in WeightValues :
       LET n == 2 * (size \div 2)
       IN evo = [phase |-> "evaluate", size |-> size, gen |-> 0,
                 stream |-> stream,
                 drawn |-> 0,
                 heap |-> [i \in 1..n |-> Genome(1 + (i % 2), b)],
                 population |-> [i \in 1..n |-> i],
                 scored |-> <<>>, survivors |-> <<>>, new_pop |-> <<>>,
                 best_all_time |-> [wins |-> 0, genome |-> NoGenome],
                 elite |-> <<>>, tops |-> <<>>, evaluated |-> {},
                 annealing |-> <<>>]

\* Lines 587-614 of one generation: the annealed parameters, the league
\* battle, the sort, the record and the survivors.  elite, tops, evaluated
\* and annealing keep what was selected, evaluated and computed in each
\* generation, for the claims.
EvaluateGeneration ==
  /\ evo.phase = "evaluate"
  /\ \E league \in Leagues :
       LET n == Len(evo.population)
           wins == evaluate_population(n, league)
           scored == scored_pop(wins, evo.population)
           top == scored[1]
           survivors == [j \in 1..cutoff(evo.size) |-> scored[j].genome]
       IN evo' =
            IF Raises(league, 1) \/ (n * GAMES_PER_MATCH) \div 10 = 0
            THEN [evo EXCEPT !.phase = "crashed",
                             !.annealing = Append(@, Annealed(evo.gen))]
            ELSE [evo EXCEPT
                    !.phase = "breed",
                    !.annealing = Append(@, Annealed(evo.gen)),
                    !.scored = scored,
                    !.best_all_time =
                      IF top.wins > @.wins
                      THEN [wins |-> top.wins, genome |-> top.genome]
                      ELSE @,
                    !.survivors = survivors,
                    !.new_pop = survivors,
                    !.elite =
                      [j \in 1..cutoff(evo.size) |->
                         [genome |-> scored[j].genome,
                          weights |-> evo.heap[scored[j].genome]]],
                    !.tops = Append(@, top.wins),
                    !.evaluated =
                      @ \cup {[gen |-> evo.gen, genome |-> evo.population[i],
                               wins |-> wins[i]] : i \in 1..n}]
  /\ EvolveFrame

\* One round of "while len(new_pop) < POPULATION_SIZE".  random.choice of an
\* empty list of survivors raises.
Breed ==
  /\ evo.phase = "breed"
  /\ Len(evo.new_pop) < evo.size
  /\ IF evo.survivors = <<>>
     THEN evo' = [evo EXCEPT !.phase = "crashed"]
     ELSE \E s \in 1..Len(evo.survivors) :
            LET parent == evo.survivors[s]
                m == mutate(evo.heap, parent, evo.stream, evo.drawn)
            IN evo' = [evo EXCEPT
                         !.heap = m.heap,
                         !.drawn = @ + Len(GENOME_KEYS),
                         !.new_pop = Append(@, m.child)]
  /\ EvolveFrame

\* population = new_pop, and the next round of "for gen in range(GENERATIONS)".
NextGeneration ==
  /\ evo.phase = "breed"
  /\ Len(evo.new_pop) >= evo.size
  /\ evo' = [evo EXCEPT
               !.population = evo.new_pop,
               !.gen = @ + 1,
               !.phase = IF evo.gen + 1 < GENERATIONS THEN "evaluate"
                         ELSE "report"]
  /\ EvolveFrame

\* print(f"FINAL BEST: {best_all_time[0]} wins ... {best_all_time[1]}")
Report ==
  /\ evo.phase = "report"
  /\ evo' = [evo EXCEPT !.phase = "done"]
  /\ EvolveFrame

EvolveNext == EvaluateGeneration \/ Breed \/ NextGeneration \/ Report

EvolveSpec == EvolveInit /\ [][EvolveNext]_vars

\* ---- AgentsSpec: two SharkAgent7 instances in one process.  The process
\* holds the module-level table TOTAL_CARDS and the tracker objects; an agent
\* holds a reference to its tracker.
AgentIds == {1, 2}

\* self.tracker = GlobalStateTracker() in the constructor of the k-th agent:
\* a new tracker object.
NewTracker(k) == k

\* A get_deck_remaining that works on TOTAL_CARDS itself, not on a copy.
deck_remaining_call_NoCopy(total_cards, t, o) ==
  LET remaining ==
        [g \in GoodType |->
           Max(0, total_cards[g] - o.market_goods[g] - o.actor_goods[g]
                  - t.opp_confirmed[g] - t.sold_cards[g])]
  IN [remaining |-> remaining, TOTAL_CARDS |-> remaining, obs |-> o,
      tracker |-> t]

\* get_deck_remaining(obs) with everything it can reach: the module-level
\* TOTAL_CARDS, the observation and the tracker, as they are after the call.
\* remaining is a deep copy; Counter reads of missing keys add no entry.
deck_remaining_call(total_cards, t, o) ==
  LET remaining ==
        [g \in GoodType |->
           Max(0, total_cards[g] - o.market_goods[g] - o.actor_goods[g]
                  - t.opp_confirmed[g] - t.sold_cards[g])]
  IN [remaining |-> remaining, TOTAL_CARDS |-> total_cards, obs |-> o,
      tracker |-> t]

AgentActions ==
  {NoneAct, TakeAction("DIAMOND"), TakeCamels(2), SellAction("DIAMOND", 2),
   TradeAction(Bag("SPICE", 1), Bag("DIAMOND", 1))}

AgentsFrame == UNCHANGED <<trackerVars, game, sel, runs, match, evo, calc, train>>

AgentsInit ==
  /\ InitTracker
  /\ game = NoGame
  /\ sel = Unused
  /\ runs = Unused
  /\ match = Unused
  /\ evo = Unused
  /\ calc = Unused
  /\ train = Unused
  /\ agents = [tracker_of |-> [k \in AgentIds |-> NewTracker(k)],
               trackers |-> [s \in AgentIds |-> TrackerInit],
               TOTAL_CARDS |-> TOTAL_CARDS,
               calls |-> 0,
               last |-> [op |-> "init"]]

\* Agent k calls self.tracker.update(observation).
AgentUpdate ==
  /\ agents.calls < MaxCalls
  /\ \E k \in AgentIds, a \in AgentActions, scene \in Scenes :
       LET o == SceneObservation(scene,
                  IF a = NoneAct THEN NoneId ELSE agents.calls + 1, a)
           slot == agents.tracker_of[k]
       IN agents' = [agents EXCEPT
                       !.trackers[slot] = update(@, o),
                       !.calls = @ + 1,
                       !.last = [op |-> "update", agent |-> k, obs |-> o]]
  /\ AgentsFrame

\* Agent k calls self.tracker.get_deck_remaining(observation).
AgentDeckRemaining ==
  /\ agents.last.op # "get_deck_remaining"
  /\ \E k \in AgentIds, scene \in Scenes :
       LET o == SceneObservation(scene, NoneId, NoneAct)
           slot == agents.tracker_of[k]
           call == deck_remaining_call(agents.TOTAL_CARDS,
                                       agents.trackers[slot], o)
       IN agents' = [agents EXCEPT
                       !.trackers[slot] = call.tracker,
                       !.TOTAL_CARDS = call.TOTAL_CARDS,
                       !.last = [op |-> "get_deck_remaining", agent |-> k,
                                 obs |-> o, obs_after |-> call.obs,
                                 remaining |-> call.remaining]]
  /\ AgentsFrame

AgentsNext == AgentUpdate \/ AgentDeckRemaining

AgentsSpec == AgentsInit /\ [][AgentsNext]_vars

\* ------------------------------------------------- claims: select_action
Returned == sel.phase = "returned"

Positions == 1..Len(sel.actions)

\* The score of the action at position i as the loop compares it.
Jittered(i) == AddJitter(sel.scores[i], sel.jitter[i])

\* C11: for every non-empty list of legal actions, every observation and
\* every tracker state, select_action returns one element of the supplied
\* list: never None, never an action that was not supplied.
C11_ReturnsSuppliedAction ==
  (Returned /\ Len(sel.actions) > 0) =>
    /\ sel.index \in Positions
    /\ sel.returned = sel.actions[sel.index]
    /\ sel.returned # NoneAct

\* A call whose every action scores below zero returned one of them.
C11_Witness ==
  /\ Returned
  /\ Len(sel.actions) >= 2
  /\ \A i \in Positions : Jittered(i) < 0
  /\ sel.index \in Positions

C13_JitterOnlyBreaksTies ==
  Returned =>
    \A i, j \in Positions :
      sel.scores[i] > sel.scores[j] => sel.index # j

\* The non-camel hand size after the agent plays the action.
HandAfter(action, hand_size) ==
  IF action.kind = "Sell" THEN hand_size - action.count
  ELSE IF action.kind = "Take" /\ action.good # CAMEL THEN hand_size + 1
  ELSE IF action.kind = "Trade"
    THEN hand_size + GoodsCount(action.requested_goods)
           - GoodsCount(action.offered_goods)
  ELSE hand_size

C14_SameSeedSameActions == runs.returned[1] = runs.returned[2]

\* The six goods that have a token stack.
StackGoods == GoodType \ {CAMEL}

\* C25: the end-game flag of select_action is set exactly when at most 8
\* cards remain in the deck or at least two of the six goods with a token
\* stack have an empty one; the camel, which has no entry in
\* market_goods_coins, does not count as an empty stack.
C25_EndgameFlag ==
  Returned =>
    (sel.is_endgame <=>
       \/ sel.o.market_reserved_goods_count <= 8
       \/ Cardinality({g \in StackGoods :
                         sel.o.market_goods_coins[g] = <<>>}) >= 2)

\* ------------------------------------------------- claims: the optimizer
\* C16: an exception raised while one simulated game is set up or played
\* (agent construction, engine calls, select_action, reward calculation)
\* makes play_match return 0.
C16_FailureCountsAsLoss ==
  match.failed_at # "none" => (match.outcome = "returned" /\ match.value = 0)

\* The games won among the games assigned to population[i].
WonBy(i) ==
  Cardinality({k \in Tasks(evo.n) :
                 GenomeOf(k) = i - 1 /\ run_match_task(evo.league, k) = 1})

\* C17: whatever the order in which the worker processes finish their games,
\* the results reach the reduction in the order of the tasks, so that
\* wins_per_agent[i] is the number of games won among the GAMES_PER_MATCH
\* games assigned to population[i]; and the reduction runs only after every
\* worker has returned.
C17_WinsByGenomeIndex ==
  /\ evo.phase \in {"pool", "done"} =>
       \A idx \in 1..Len(evo.results) :
         evo.results[idx] = run_match_task(evo.league, idx - 1)
  /\ evo.phase = "done" =>
       /\ \A i \in 1..evo.n : evo.wins_per_agent[i] = WonBy(i)
       /\ evo.running = {}
       /\ evo.finished = {}
       /\ evo.next = evo.n * GAMES_PER_MATCH

\* A league battle whose games finished out of order and whose genomes won
\* different numbers of games has been reduced.
C17_Witness ==
  /\ evo.phase = "done"
  /\ evo.overtook
  /\ \E i, j \in 1..evo.n : evo.wins_per_agent[i] # evo.wins_per_agent[j]

\* The generation whose survivors evo.elite holds has been selected.
Selected ==
  evo.phase \in {"breed", "evaluate", "report", "done"} /\ evo.elite # <<>>

\* C18: in each generation the genomes are sorted by wins, highest first, and
\* the first int(0.2 * POPULATION_SIZE) of them appear in the next
\* generation with every weight unchanged; creating mutated children from an
\* elite never modifies the weights of the elite.
C18_Elitism ==
  Selected =>
    /\ \A p, q \in 1..Len(evo.scored) :
         p < q => evo.scored[p].wins >= evo.scored[q].wins
    /\ Len(evo.elite) = cutoff(evo.size)
    /\ \A j \in 1..cutoff(evo.size) :
         /\ evo.elite[j].genome = evo.scored[j].genome
         /\ evo.heap[evo.elite[j].genome] = evo.elite[j].weights
         /\ IF evo.phase = "breed"
            THEN evo.new_pop[j] = evo.elite[j].genome
            ELSE evo.population[j] = evo.elite[j].genome

\* A next generation holds the elite and a child whose weights differ from
\* those of the elite it was made from.
C18_Witness ==
  /\ evo.phase \in {"evaluate", "report"}
  /\ evo.gen >= 1
  /\ evo.elite # <<>>
  /\ \E i \in 1..Len(evo.population) :
       evo.heap[evo.population[i]] # evo.heap[evo.elite[1].genome]

RECURSIVE MaxOf(_)
MaxOf(s) == IF Len(s) = 1 THEN s[1] ELSE Max(s[1], MaxOf(Tail(s)))

\* C19: the optimizer stops after exactly GENERATIONS rounds and reports the
\* best genome ever seen with its wins: the reported genome was evaluated in
\* some generation, the reported wins are its wins in that generation, and
\* they are the greatest of the top wins of all generations.
C19_ReportsBestEver ==
  evo.phase = "done" =>
    /\ evo.gen = GENERATIONS
    /\ Len(evo.tops) = GENERATIONS
    /\ evo.best_all_time.wins = MaxOf(evo.tops)
    /\ \E e \in evo.evaluated :
         /\ e.genome = evo.best_all_time.genome
         /\ e.wins = evo.best_all_time.wins

\* ------------------------------------------------- claims: agent instances
\* The tracker that agent k holds, before and after a step.
TrackerOf(k) == agents.trackers[agents.tracker_of[k]]

TrackerOfNext(k) == agents'.trackers[agents'.tracker_of[k]]

C20_UpdateStep ==
  agents'.last.op = "update" =>
    /\ \A k \in AgentIds \ {agents'.last.agent} : TrackerOfNext(k) = TrackerOf(k)
    /\ agents'.TOTAL_CARDS = agents.TOTAL_CARDS

C20_DeckStep ==
  agents'.last.op = "get_deck_remaining" =>
    /\ agents'.TOTAL_CARDS = agents.TOTAL_CARDS
    /\ agents'.last.obs_after = agents'.last.obs
    /\ \A k \in AgentIds : TrackerOfNext(k) = TrackerOf(k)
    /\ agents'.last.remaining =
         get_deck_remaining(TrackerOf(agents'.last.agent),
                            agents'.last.obs.market_goods,
                            agents'.last.obs.actor_goods)

\* C20: each agent instance owns its tracker, so update() on the tracker of
\* one agent never changes a counter of the tracker of another agent; and
\* get_deck_remaining never modifies the module-level TOTAL_CARDS, the
\* observation or the counters of the tracker.
C20_NoSharedState ==
  [][agents' # agents => (C20_UpdateStep /\ C20_DeckStep)]_vars

\* Both agents have updated their trackers to different counters, and one of
\* them has then computed its deck estimate.
C20_Witness ==
  /\ agents.last.op = "get_deck_remaining"
  /\ TrackerOf(1) # TrackerInit
  /\ TrackerOf(2) # TrackerInit
  /\ TrackerOf(1) # TrackerOf(2)
  /\ agents.last.remaining # agents.TOTAL_CARDS

\* ---- ScoreSpec: the scoring functions of SharkAgent7, each applied to the
\* arguments select_action derives for one good of interest: its token stack
\* at every length, the cards of it in the hand, in the market, with the
\* opponent and sold, and the three levels of hand pressure.
\* Largest number of cards of the good in the agent's hand.
MaxHand == 5

\* Largest number of cards of the good in the market.
MaxMarket == 2

\* Largest number of cards of the good the opponent is known to hold.
MaxConfirmed == 3

FocusGoods == {"DIAMOND", "SPICE", CAMEL}

\* The non-camel hand sizes the hand is filled up to with leather: no
\* filling, one below the limit, the limit.
HandTargets == {0, HandLimit - 1, HandLimit}

\* The observation: k tokens are left on the stack of the good, the hand
\* holds h and the market m cards of it; late in the game the silver stack
\* is sold out and the deck is down to 8 cards.
ScoreScene(good, k, h, m, target, late) ==
  LET pad == Max(0, target - (IF good = CAMEL THEN 0 ELSE h))
      stacks == IF late THEN [Stacks EXCEPT !["SILVER"] = <<>>] ELSE Stacks
  IN [market_goods_coins |->
        [stacks EXCEPT ![good] = SubSeq(Stacks[good], 1, k)],
      market_goods |->
        [x \in GoodType |->
           IF x = good THEN m ELSE IF x = "GOLD" THEN DealSize - m ELSE 0],
      actor_goods |->
        [x \in GoodType |->
           IF x = good THEN h
           ELSE IF x = "LEATHER" THEN pad
           ELSE IF x = CAMEL THEN 2
           ELSE 0],
      my_score |-> IF late THEN 40 ELSE 7,
      market_reserved_goods_count |-> IF late THEN 8 ELSE 30,
      max_player_goods_count |-> HandLimit]

\* The tracker after its update: the opponent took c cards of the good (c
\* camels for the camel), sold s cards of it and, late in the game, three
\* cards of fabric.
ScoreTracker(good, c, s, late) ==
  [opp_confirmed |-> IF good = CAMEL THEN Counter ELSE Bag(good, c),
   opp_hand_size |-> IF late THEN 5 + c - 3 ELSE 5 + c,
   opp_camels |-> IF good = CAMEL THEN c ELSE 0,
   opp_score_est |->
     (s * avg_val(good)) + bonus(s) + (IF late THEN 8 ELSE 0),
   sold_cards |->
     [x \in GoodType |->
        IF x = good THEN s ELSE IF x = "FABRIC" /\ late THEN 3 ELSE 0],
   last_action_id |-> NoneId]

\* The cards of the good that the opponent sold when the cards that are not
\* in the hand, in the market or with the opponent were all sold by it.
SoldOut(good, h, m, c) == TOTAL_CARDS[good] - h - m - c

\* The inputs for one good whose cards add up: the cards of the good that
\* are not in the hand, in the market or with the opponent are all in the
\* deck or were all sold by the opponent, and every sold card took a token.
ScoreInputsOf(good) ==
  {[o |-> SceneObservation(ScoreScene(good, q.k, q.h, q.m, q.target, q.late),
                           NoneId, NoneAct),
    t |-> ScoreTracker(good, q.c,
                       IF q.sold THEN SoldOut(good, q.h, q.m, q.c) ELSE 0,
                       q.late),
    good |-> good] :
     q \in {r \in [k : 0..Len(Stacks[good]), h : 0..MaxHand,
                   m : 0..MaxMarket, target : HandTargets, late : BOOLEAN,
                   c : 0..MaxConfirmed, sold : BOOLEAN] :
              /\ r.sold => good # CAMEL
              /\ r.h + r.m + r.c
                   + Max(IF r.sold THEN SoldOut(good, r.h, r.m, r.c) ELSE 0,
                         Len(Stacks[good]) - r.k) <= TOTAL_CARDS[good]}}

ScoreInputs == UNION {ScoreInputsOf(good) : good \in FocusGoods}

ScoreFrame ==
  UNCHANGED <<trackerVars, game, sel, runs, match, evo, agents, train>>

ScoreInit ==
  /\ InitTracker
  /\ game = NoGame
  /\ sel = Unused
  /\ runs = Unused
  /\ match = Unused
  /\ evo = Unused
  /\ agents = Unused
  /\ train = Unused
  /\ \E in \in ScoreInputs :
       calc = [phase |-> "input", o |-> in.o, t |-> in.t, good |-> in.good]

\* One scoring call with the context of select_action for calc.o and calc.t.
Scored(phase, action, count, value, score) ==
  calc' = [phase |-> phase, o |-> calc.o, t |-> calc.t, good |-> calc.good,
           action |-> action, count |-> count, value |-> value,
           score |-> score]

\* self._get_exact_value(good, count, obs), for the good and for the camel.
ExactValue ==
  /\ calc.phase = "input"
  /\ \E good \in {calc.good, CAMEL}, count \in 1..MaxSell :
       Scored("value", SellAction(good, count), count,
              _get_exact_value(good, count, calc.o), 0)
  /\ ScoreFrame

\* self._score_sell(action, ...) for a sale of 1 to all cards of the good in
\* the hand; the call after a call is the sale of another count.
ScoreSell ==
  /\ calc.phase \in {"input", "sell"}
  /\ calc.good # CAMEL
  /\ \E count \in 1..calc.o.actor_goods[calc.good] :
       LET c == Context(SharkAgent7Genome, calc.t, calc.o)
           action == SellAction(calc.good, count)
       IN Scored("sell", action, count,
                 sell_bonus(SharkAgent7Genome, count),
                 _score_sell(SharkAgent7Genome, action, calc.o, c.pressure,
                             c.opp_confirmed, c.deck_remaining, c.is_endgame,
                             c.am_i_winning))
  /\ ScoreFrame

\* self._calculate_opponent_potential(good, opp_count, deck, obs), whether
\* or not the market holds a card of the good.
OpponentPotential ==
  /\ calc.phase = "input"
  /\ LET c == Context(SharkAgent7Genome, calc.t, calc.o)
     IN Scored("potential", TakeAction(calc.good), 1,
               _calculate_opponent_potential(
                 calc.good, c.opp_confirmed[calc.good], c.deck_remaining,
                 calc.o),
               0)
  /\ ScoreFrame

\* self._score_take(action, ...) for a Take of the good from the market.
ScoreTake ==
  /\ calc.phase = "input"
  /\ calc.o.market_goods[calc.good] >= 1
  /\ LET c == Context(SharkAgent7Genome, calc.t, calc.o)
         action == TakeAction(calc.good)
     IN Scored("take", action, 1, 0,
               _score_take(SharkAgent7Genome, action, calc.o, c.hand_size,
                           c.pressure, c.opp_confirmed, c.opp_locked,
                           c.is_endgame, c.deck_remaining))
  /\ ScoreFrame

\* self._score_trade(action, ...) for a Trade that requests n cards of the
\* good from the market and offers n cards of leather or n camels.
ScoreTrade ==
  /\ calc.phase = "input"
  /\ calc.good # CAMEL
  /\ \E n \in 2..MaxMarket, paid \in {"LEATHER", CAMEL} :
       /\ n <= calc.o.market_goods[calc.good]
       /\ n <= calc.o.actor_goods[paid]
       /\ LET c == Context(SharkAgent7Genome, calc.t, calc.o)
              action == TradeAction(Bag(calc.good, n), Bag(paid, n))
          IN Scored("trade", action, n, 0,
                    _score_trade(SharkAgent7Genome, action, calc.o,
                                 c.hand_size, c.deck_remaining))
  /\ ScoreFrame

ScoreNext ==
  ExactValue \/ ScoreSell \/ OpponentPotential \/ ScoreTake \/ ScoreTrade

ScoreSpec == ScoreInit /\ [][ScoreNext]_vars

\* --------------------------------- train_shark7: its GlobalStateTracker
\* ---- TwinSpec: the tracker of train_shark7 (the one ParametricSharkOmega
\* is trained with) and the tracker of shark_agent7, both given the same
\* sequence of observations.
\* train_shark7.GlobalStateTracker.__init__
train_TrackerInit ==
  [opp_confirmed |-> Counter,
   opp_hand_size |-> 5,
   sold_cards |-> Counter,
   opp_camels |-> 0,
   opp_score_est |-> 0,
   last_action_id |-> NoneId]

\* train_shark7 update(), the Sell branch.
train_ApplySell(t, act) ==
  LET known == t.opp_confirmed[act.good]
      val == IF act.good \in {"DIAMOND", "GOLD"} THEN 5 ELSE 2
  IN [t EXCEPT
        !.opp_hand_size = @ - act.count,
        !.opp_confirmed[act.good] = @ - Min(known, act.count),
        !.sold_cards[act.good] = @ + act.count,
        !.opp_score_est = @ + (act.count * val)]

\* train_shark7 update(), the Take branch.
train_ApplyTake(t, act) ==
  IF act.good = CAMEL
  THEN [t EXCEPT !.opp_camels = @ + (IF act.has_count THEN act.count ELSE 1)]
  ELSE [t EXCEPT !.opp_hand_size = @ + 1,
                 !.opp_confirmed[act.good] = @ + 1]

\* train_shark7 update(), the Trade branch: the two loops over GoodType.
train_ApplyTrade(t, act) ==
  LET requested ==
        [g \in GoodType |->
           IF act.requested_goods[g] > 0
           THEN t.opp_confirmed[g] + act.requested_goods[g]
           ELSE t.opp_confirmed[g]]
      offered ==
        [g \in GoodType |->
           IF act.offered_goods[g] > 0 /\ g # CAMEL
           THEN requested[g] - Min(requested[g], act.offered_goods[g])
           ELSE requested[g]]
  IN [t EXCEPT
        !.opp_confirmed = offered,
        !.opp_camels =
          IF act.offered_goods[CAMEL] > 0
          THEN Max(0, @ - act.offered_goods[CAMEL])
          ELSE @]

\* train_shark7.GlobalStateTracker.update
train_update(t, o) ==
  IF o.id = NoneId \/ o.id = t.last_action_id THEN t
  ELSE LET t1 == [t EXCEPT !.last_action_id = o.id]
           act == o.action
       IN IF act.kind = "Sell" THEN train_ApplySell(t1, act)
          ELSE IF act.kind = "Take" THEN train_ApplyTake(t1, act)
          ELSE IF act.kind = "Trade" THEN train_ApplyTrade(t1, act)
          ELSE t1

\* One observation, passed to update() of both trackers.
TwinCall(o) ==
  /\ calls < MaxCalls
  /\ Step(o)
  /\ train' = train_update(train, o)

TwinFrame ==
  UNCHANGED <<presented, applied, game, sel, runs, match, evo, agents, calc>>

TwinInit ==
  /\ InitTracker
  /\ game = NoGame
  /\ sel = Unused
  /\ runs = Unused
  /\ match = Unused
  /\ evo = Unused
  /\ agents = Unused
  /\ calc = Unused
  /\ train = train_TrackerInit

TwinNoAction ==
  /\ TwinCall(NoObservation)
  /\ TwinFrame

TwinNewAction ==
  /\ \E a \in ActionInputs : TwinCall(Observation(calls + 1, a))
  /\ TwinFrame

\* The observation of the previous call again: the same action object.
TwinSameAction ==
  /\ obs.id # NoneId
  /\ TwinCall(obs)
  /\ TwinFrame

TwinNext == TwinNoAction \/ TwinNewAction \/ TwinSameAction

TwinSpec == TwinInit /\ [][TwinNext]_vars

\* ------------------------------------------------ claims: the scorer
\* The sum of the tokens at the positions i, ..., Len(tokens) of a stack.
RECURSIVE SumFrom(_, _)
SumFrom(tokens, i) ==
  IF i > Len(tokens) THEN 0 ELSE tokens[i] + SumFrom(tokens, i + 1)

\* The token stack the call recorded in calc is about.
CalcTokens == calc.o.market_goods_coins[calc.action.good]

\* C21: for every good, every count >= 1 and every token stack,
\* _get_exact_value returns the sum of the top min(count, stack length)
\* tokens of the good's stack, never more than the stack holds, and 0 when
\* the stack is empty or the good (the camel) has no stack.
C21_ExactValue ==
  calc.phase = "value" =>
    /\ calc.value
         = SumFrom(CalcTokens,
                   Len(CalcTokens) - Min(calc.count, Len(CalcTokens)) + 1)
    /\ calc.value <= SumFrom(CalcTokens, 1)
    /\ (CalcTokens = <<>> \/ calc.action.good = CAMEL) => calc.value = 0

\* The waste case: more cards than tokens, on a stack that still has some.
C21_Witness ==
  /\ calc.phase = "value"
  /\ calc.count > Len(CalcTokens)
  /\ Len(CalcTokens) >= 2
  /\ calc.value = SumFrom(CalcTokens, 1)

\* C22: with the good, the token stack and all other inputs fixed, the set
\* bonus _score_sell computes with the genome of SharkAgent7 strictly
\* increases when the count of the sale steps up to a threshold 3, 4 or 5.
C22_BonusMonotone ==
  [][(/\ calc.phase = "sell"
      /\ calc'.phase = "sell"
      /\ calc'.count = calc.count + 1
      /\ calc'.count \in {3, 4, 5}) => calc'.value > calc.value]_vars

\* The context select_action derives for the call recorded in calc.
CalcContext == Context(SharkAgent7Genome, calc.t, calc.o)

\* deck_remaining, opp_confirmed and the market all hold none of the good.
CalcImpossible ==
  /\ CalcContext.deck_remaining[calc.good] = 0
  /\ CalcContext.opp_confirmed[calc.good] = 0
  /\ calc.o.market_goods[calc.good] = 0

\* The score of the recorded sale under another genome.
CalcSellScore(params) ==
  _score_sell(params, calc.action, calc.o, CalcContext.pressure,
              CalcContext.opp_confirmed, CalcContext.deck_remaining,
              CalcContext.is_endgame, CalcContext.am_i_winning)

\* C23: whenever deck_remaining, opp_confirmed and the market hold none of a
\* good, the score of every Sell of that good, for every kind of good, count
\* and hand pressure, is higher than the score of the same Sell with
\* impossible_sell_bonus set to zero.
C23_ImpossibleBonusApplied ==
  (calc.phase = "sell" /\ CalcImpossible) =>
    calc.score
      > CalcSellScore([SharkAgent7Genome EXCEPT !.impossible_sell_bonus = 0])

\* What the opponent would hold of the good after one more card, and the
\* most it can ever hold: its cards, the deck's and the market's.
CalcPotentialCount == CalcContext.opp_confirmed[calc.good] + 1

CalcReach ==
  CalcContext.opp_confirmed[calc.good]
    + CalcContext.deck_remaining[calc.good] + calc.o.market_goods[calc.good]

\* The points of a sale of n cards of the recorded good: the top tokens and
\* the set bonus the scorer estimates (2 for three cards, 5 for more).
CalcSetValue(n) ==
  SumFrom(CalcTokens, Len(CalcTokens) - Min(n, Len(CalcTokens)) + 1)
    + (IF n = 3 THEN 2 ELSE 5)

CalcDenied ==
  \/ CalcContext.opp_confirmed[calc.good] < 2
  \/ CalcPotentialCount > CalcReach
  \/ CalcTokens = <<>>

\* The score of the recorded Take under another genome.
CalcTakeScore(params) ==
  _score_take(params, calc.action, calc.o, CalcContext.hand_size,
              CalcContext.pressure, CalcContext.opp_confirmed,
              CalcContext.opp_locked, CalcContext.is_endgame,
              CalcContext.deck_remaining)

\* C26: the opponent potential, and with it the denial term of a Take score,
\* is zero when the opponent is tracked with fewer than 2 cards of the good,
\* when opp_confirmed + 1 exceeds opp_confirmed + deck_remaining + market,
\* and when the token stack of the good is empty; otherwise the Take score
\* holds denial_weight times the points of a sale of opp_confirmed + 1 cards.
C26_DenialTerm ==
  LET expected == IF CalcDenied THEN 0 ELSE CalcSetValue(CalcPotentialCount)
  IN /\ calc.phase = "potential" => calc.value = expected
     /\ calc.phase = "take" =>
          calc.score
            - CalcTakeScore([SharkAgent7Genome EXCEPT !.denial_weight = 0])
            = (IF calc.good = CAMEL THEN 0
               ELSE Weight(expected * SharkAgent7Genome.denial_weight))

\* A Take of a good the opponent holds two of, with tokens on the stack.
C26_Witness ==
  /\ calc.phase = "take"
  /\ calc.good = "DIAMOND"
  /\ ~CalcDenied
  /\ CalcContext.opp_confirmed[calc.good] = 2
  /\ calc.score
       > CalcTakeScore([SharkAgent7Genome EXCEPT !.denial_weight = 0])

\* value_in - value_out of the recorded Trade, as _score_trade computes it.
CalcTradeBase ==
  LET req == calc.action.requested_goods
      off == calc.action.offered_goods
  IN trade_value_in(SharkAgent7Genome, req, calc.o,
                    CalcContext.deck_remaining)
       + (IF CalcContext.hand_size >= 6 /\ GoodsCount(req) < GoodsCount(off)
          THEN Points(10) ELSE 0)
       - trade_value_out(SharkAgent7Genome, off, calc.o)

\* C27: a Trade that brings the hand count of a requested good to 3 or more
\* completes a sellable set, and its score is the flat bonus of 100 on top of
\* value_in - value_out.
C27_TradeCompletionBonus ==
  (/\ calc.phase = "trade"
   /\ \E g \in GoodType :
        /\ calc.action.requested_goods[g] > 0
        /\ calc.o.actor_goods[g] + calc.action.requested_goods[g] >= 3) =>
    calc.score = Points(100) + CalcTradeBase

\* ------------------------------------------- claims: run_evolution, again
\* The explore and the refine values of the three parameters, in millionths.
Explore == [rate |-> 500000, strength |-> 800000, catastrophic |-> 100000]

Refine == [rate |-> 100000, strength |-> 200000, catastrophic |-> 10000]

\* C24: the mutation probability, the perturbation strength and the
\* catastrophic-mutation probability are at their explore values in
\* generation 0, at their refine values in the final generation of the run,
\* on the straight line between the two in every generation, and never
\* increase from one generation to the next.
C24_AnnealingSchedule ==
  evo.phase \in {"breed", "report"} =>
    \A g \in 1..Len(evo.annealing) :
      /\ g = 1 => evo.annealing[g] = Explore
      /\ g = GENERATIONS => evo.annealing[g] = Refine
      /\ \A p \in {"rate", "strength", "catastrophic"} :
           /\ (GENERATIONS - 1) * (Explore[p] - evo.annealing[g][p])
                = (g - 1) * (Explore[p] - Refine[p])
           /\ g > 1 => evo.annealing[g][p] <= evo.annealing[g - 1][p]

\* C30: for every configured population size, the initial population and
\* the population every generation's select-and-refill step produces hold
\* exactly that many genomes, and the refill step has at least one elite to
\* choose a parent from.
C30_PopulationSize ==
  /\ evo.phase \in {"evaluate", "breed", "report"} =>
       Len(evo.population) = evo.size
  /\ evo.phase = "breed" => Len(evo.survivors) >= 1

\* ------------------------------------------------ claims: the two trackers
\* C28: after the same sequence of observed actions the tracker of
\* train_shark7 and the tracker of shark_agent7 hold the same opp_confirmed,
\* opp_hand_size, opp_camels, sold_cards and opp_score_est.
C28_SameTrackedState ==
  train # Unused =>
    /\ train.opp_confirmed = tracker.opp_confirmed
    /\ train.opp_hand_size = tracker.opp_hand_size
    /\ train.opp_camels = tracker.opp_camels
    /\ train.sold_cards = tracker.sold_cards
    /\ train.opp_score_est = tracker.opp_score_est

\* ----------------------------------------- claims: the tracked hand size
\* C29: in the reference game, after any sequence of legal opponent actions,
\* 0 <= opp_hand_size <= 7, and the opp_locked test of select_action
\* (opp_hand_size >= 7) is true exactly when the opponent's real non-camel
\* hand is full.
C29_HandSizeInRange ==
  game # NoGame =>
    /\ 0 <= tracker.opp_hand_size
    /\ tracker.opp_hand_size <= HandLimit
    /\ (tracker.opp_hand_size >= 7
          <=> GoodsCount(game.opp_goods) >= HandLimit)

====
